---- MODULE Spec2Model ----
(***************************************************************************)
(* SmartChatParser (src/smart-chat-parser.js): the pattern table, the     *)
(* per-line classifier parseLine, the accumulator loop of parse, the      *)
(* field normalizers, toStandardFormat, detectFormat and getFormatExample.*)
(* Strings are TLA+ strings; the regular expressions are run by a         *)
(* backtracking matcher over the string's characters, with ECMAScript's   *)
(* priorities (leftmost start, greedy before shorter, lazy before longer).*)
(***************************************************************************)
EXTENDS Integers, Sequences, FiniteSets, TLC

VARIABLES text, tag, pc, lines, i, parsed, messages, currentMessage, pass,
          first, detected, raised, opened

vars == <<text, tag, pc, lines, i, parsed, messages, currentMessage, pass,
          first, detected, raised, opened>>

(***************************************************************************)
(* Characters and strings                                                  *)
(***************************************************************************)

\* The characters of a string, as a tuple of one-character strings.
Chars(s) == [k \in 1..Len(s) |-> SubSeq(s, k, k)]

\* ECMAScript LineTerminator, as far as the inputs' alphabet goes.
LineTerminator == {"\n", "\r"}

\* ECMAScript WhiteSpace and LineTerminator: what \s matches and trim strips.
WhiteSpaceChar == {" ", "\t", "\f"} \cup LineTerminator

Digit == {"0", "1", "2", "3", "4", "5", "6", "7", "8", "9"}

\* Membership of character c in a character class of the pattern table.
InClass(cls, c) ==
    CASE cls = "dot"        -> c \notin LineTerminator      \* .
      [] cls = "timechar"   -> c \in Digit \cup {":"}       \* [\d:]
      [] cls = "space"      -> c \in WhiteSpaceChar         \* \s
      [] cls = "notcolon"   -> c # ":"                      \* [^:]
      [] cls = "notcomma"   -> c # ","                      \* [^,]
      [] cls = "notparen"   -> c # "("                      \* [^(]
      [] cls = "notbracket" -> c # "["                      \* [^\[]
      [] cls = "notdigitnl" -> c \notin Digit \cup {"\n"}   \* [^\d\n]
      [] cls = "digit"      -> c \in Digit                  \* \d
      [] cls = "quote"      -> c \in {"'", "\""}            \* ['"]

\* String.prototype.trim
RECURSIVE TrimLeft(_)
TrimLeft(s) ==
    IF Len(s) > 0 /\ SubSeq(s, 1, 1) \in WhiteSpaceChar
    THEN TrimLeft(SubSeq(s, 2, Len(s)))
    ELSE s

RECURSIVE TrimRight(_)
TrimRight(s) ==
    IF Len(s) > 0 /\ SubSeq(s, Len(s), Len(s)) \in WhiteSpaceChar
    THEN TrimRight(SubSeq(s, 1, Len(s) - 1))
    ELSE s

Trim(s) == TrimRight(TrimLeft(s))

\* String.prototype.split('\n'): the pieces between line feeds, in order.
RECURSIVE SplitFrom(_, _, _)
SplitFrom(s, from, k) ==
    IF k > Len(s) THEN <<SubSeq(s, from, Len(s))>>
    ELSE IF SubSeq(s, k, k) = "\n"
         THEN <<SubSeq(s, from, k - 1)>> \o SplitFrom(s, k + 1, k + 1)
         ELSE SplitFrom(s, from, k + 1)

Split(s) == SplitFrom(s, 1, 1)

\* Array.prototype.join('\n')
RECURSIVE Join(_)
Join(ls) ==
    IF Len(ls) = 0 THEN ""
    ELSE IF Len(ls) = 1 THEN ls[1]
    ELSE ls[1] \o "\n" \o Join(Tail(ls))

\* map(l => l.trim()) over an array of lines
RECURSIVE MapTrim(_)
MapTrim(ls) ==
    IF Len(ls) = 0 THEN <<>> ELSE <<Trim(ls[1])>> \o MapTrim(Tail(ls))

\* filter(l => l): the non-empty lines, in order
RECURSIVE FilterNonEmpty(_)
FilterNonEmpty(ls) ==
    IF Len(ls) = 0 THEN <<>>
    ELSE IF ls[1] = "" THEN FilterNonEmpty(Tail(ls))
    ELSE <<ls[1]>> \o FilterNonEmpty(Tail(ls))

(***************************************************************************)
(* The regular expression matcher                                          *)
(***************************************************************************)

\* Pattern nodes.
Lit(c)       == [k |-> "lit",   c |-> c,   min |-> 0, lazy |-> FALSE, g |-> 0]
Rep(cls, mn) == [k |-> "rep",   c |-> cls, min |-> mn, lazy |-> FALSE, g |-> 0]
RepLazy(cls, mn) == [k |-> "rep", c |-> cls, min |-> mn, lazy |-> TRUE, g |-> 0]
Meridiem     == [k |-> "mer",   c |-> "",  min |-> 0, lazy |-> FALSE, g |-> 0]
Bol          == [k |-> "bol",   c |-> "",  min |-> 0, lazy |-> FALSE, g |-> 0]
Open(n)      == [k |-> "open",  c |-> "",  min |-> 0, lazy |-> FALSE, g |-> n]
Close(n)     == [k |-> "close", c |-> "",  min |-> 0, lazy |-> FALSE, g |-> n]

NoMatch == [ok |-> FALSE, caps |-> <<0, 0, 0, 0, 0, 0>>]

\* How many consecutive characters of cs, from pos on, are in the class.
RECURSIVE Run(_, _, _)
Run(cls, cs, pos) ==
    IF pos <= Len(cs) /\ InClass(cls, cs[pos])
    THEN 1 + Run(cls, cs, pos + 1)
    ELSE 0

\* (?:AM|PM) under the i flag, at pos.
MeridiemAt(cs, pos) ==
    /\ pos + 1 <= Len(cs)
    /\ cs[pos] \in {"A", "a", "P", "p"}
    /\ cs[pos + 1] \in {"M", "m"}

\* Match nodes n.. of pattern p against cs at pos; caps holds, for capture
\* group j, its start at 2j-1 and the position after its end at 2j.
RECURSIVE MatchAt(_, _, _, _, _), TryGreedy(_, _, _, _, _, _), TryLazy(_, _, _, _, _, _, _)
MatchAt(p, n, cs, pos, caps) ==
    IF n > Len(p) THEN [ok |-> TRUE, caps |-> caps]
    ELSE LET nd == p[n] IN
      CASE nd.k = "lit" ->
             IF pos <= Len(cs) /\ cs[pos] = nd.c
             THEN MatchAt(p, n + 1, cs, pos + 1, caps)
             ELSE NoMatch
        [] nd.k = "bol" ->
             \* ^ under the m flag: the start, or just after a line terminator
             IF pos = 1 \/ cs[pos - 1] \in LineTerminator
             THEN MatchAt(p, n + 1, cs, pos, caps)
             ELSE NoMatch
        [] nd.k = "open" ->
             MatchAt(p, n + 1, cs, pos, [caps EXCEPT ![2 * nd.g - 1] = pos])
        [] nd.k = "close" ->
             MatchAt(p, n + 1, cs, pos, [caps EXCEPT ![2 * nd.g] = pos])
        [] nd.k = "mer" ->
             \* (?:AM|PM)? : with the marker first, then without
             LET r == IF MeridiemAt(cs, pos)
                      THEN MatchAt(p, n + 1, cs, pos + 2, caps)
                      ELSE NoMatch
             IN IF r.ok THEN r ELSE MatchAt(p, n + 1, cs, pos, caps)
        [] nd.k = "rep" ->
             LET mx == Run(nd.c, cs, pos) IN
             IF mx < nd.min THEN NoMatch
             ELSE IF nd.lazy THEN TryLazy(p, n, cs, pos, caps, nd.min, mx)
             ELSE TryGreedy(p, n, cs, pos, caps, mx)

\* A greedy quantifier: the longest repetition first, then shorter ones.
TryGreedy(p, n, cs, pos, caps, cnt) ==
    IF cnt < p[n].min THEN NoMatch
    ELSE LET r == MatchAt(p, n + 1, cs, pos + cnt, caps)
         IN IF r.ok THEN r ELSE TryGreedy(p, n, cs, pos, caps, cnt - 1)

\* A lazy quantifier: the shortest repetition first, then longer ones.
TryLazy(p, n, cs, pos, caps, cnt, mx) ==
    IF cnt > mx THEN NoMatch
    ELSE LET r == MatchAt(p, n + 1, cs, pos + cnt, caps)
         IN IF r.ok THEN r ELSE TryLazy(p, n, cs, pos, caps, cnt + 1, mx)

\* RegExp.prototype.exec without the g flag: the leftmost start that matches.
RECURSIVE ExecFrom(_, _, _)
ExecFrom(p, cs, start) ==
    IF start > Len(cs) + 1 THEN NoMatch
    ELSE LET r == MatchAt(p, 1, cs, start, <<0, 0, 0, 0, 0, 0>>)
         IN IF r.ok THEN r ELSE ExecFrom(p, cs, start + 1)

\* match[j] of a successful match r of s.
Group(s, r, j) == SubSeq(s, r.caps[2 * j - 1], r.caps[2 * j] - 1)

(***************************************************************************)
(* The pattern table                                                       *)
(***************************************************************************)

\* ([\d:]+\s*(?:AM|PM)?) as capture group n
TimeGroup(n) == <<Open(n), Rep("timechar", 1), Rep("space", 0), Meridiem, Close(n)>>

\* (.+) as capture group n
RestGroup(n) == <<Open(n), Rep("dot", 1), Close(n)>>

\* an unquantified class set in a + inside capture group n
PlusGroup(n, cls) == <<Open(n), Rep(cls, 1), Close(n)>>

\* the order the patterns are declared in: Object.entries(this.patterns)
FormatOrder == <<"imessage", "discord", "whatsapp1", "whatsapp2", "slack",
                 "generic1", "telegram", "sms", "standard">>

\* /^(.+)\n([\d:]+\s*(?:AM|PM)?)\n(.+)/im
imessage ==
    <<Bol>> \o RestGroup(1) \o <<Lit("\n")>> \o TimeGroup(2)
        \o <<Lit("\n")>> \o RestGroup(3)

\* /\[([\d:]+\s*(?:AM|PM)?)\]\s*([^:]+):\s*(.+)/i
discord ==
    <<Lit("[")>> \o TimeGroup(1) \o <<Lit("]"), Rep("space", 0)>>
        \o PlusGroup(2, "notcolon") \o <<Lit(":"), Rep("space", 0)>>
        \o RestGroup(3)

\* /([\d:]+\s*(?:AM|PM)?)\s*-\s*([^:]+):\s*(.+)/i
whatsapp1 ==
    TimeGroup(1) \o <<Rep("space", 0), Lit("-"), Rep("space", 0)>>
        \o PlusGroup(2, "notcolon") \o <<Lit(":"), Rep("space", 0)>>
        \o RestGroup(3)

\* /([^,]+),\s*([\d:]+\s*(?:AM|PM)?):\s*(.+)/i
whatsapp2 ==
    PlusGroup(1, "notcomma") \o <<Lit(","), Rep("space", 0)>>
        \o TimeGroup(2) \o <<Lit(":"), Rep("space", 0)>> \o RestGroup(3)

\* /^([^\d\n]+)\s+([\d:]+\s*(?:AM|PM)?)\n(.+)/im
slack ==
    <<Bol>> \o PlusGroup(1, "notdigitnl") \o <<Rep("space", 1)>>
        \o TimeGroup(2) \o <<Lit("\n")>> \o RestGroup(3)

\* /([^(]+)\s*\(([\d:]+\s*(?:AM|PM)?)\):\s*(.+)/i
generic1 ==
    PlusGroup(1, "notparen") \o <<Rep("space", 0), Lit("(")>>
        \o TimeGroup(2) \o <<Lit(")"), Lit(":"), Rep("space", 0)>>
        \o RestGroup(3)

\* /([^\[]+)\s*\[([\d:]+\s*(?:AM|PM)?)\]\n(.+)/im
telegram ==
    PlusGroup(1, "notbracket") \o <<Rep("space", 0), Lit("[")>>
        \o TimeGroup(2) \o <<Lit("]"), Lit("\n")>> \o RestGroup(3)

\* /^([^\d\n]+?)\s*([\d:]+\s*(?:AM|PM)?)\n(.+)/im
sms ==
    <<Bol, Open(1), RepLazy("notdigitnl", 1), Close(1), Rep("space", 0)>>
        \o TimeGroup(2) \o <<Lit("\n")>> \o RestGroup(3)

\* /\[([\d:]+\s*(?:AM|PM)?)\]\s*([^:]+):\s*(.+)/i
standard ==
    <<Lit("[")>> \o TimeGroup(1) \o <<Lit("]"), Rep("space", 0)>>
        \o PlusGroup(2, "notcolon") \o <<Lit(":"), Rep("space", 0)>>
        \o RestGroup(3)

\* this.patterns[format]
patterns(format) ==
    CASE format = "imessage"  -> imessage
      [] format = "discord"   -> discord
      [] format = "whatsapp1" -> whatsapp1
      [] format = "whatsapp2" -> whatsapp2
      [] format = "slack"     -> slack
      [] format = "generic1"  -> generic1
      [] format = "telegram"  -> telegram
      [] format = "sms"       -> sms
      [] format = "standard"  -> standard

(***************************************************************************)
(* Field normalizers                                                       *)
(***************************************************************************)

\* s with every character of the class removed: replace(/[...]/g, '')
RECURSIVE RemoveAll(_, _)
RemoveAll(cls, s) ==
    IF Len(s) = 0 THEN ""
    ELSE IF InClass(cls, SubSeq(s, 1, 1))
         THEN RemoveAll(cls, SubSeq(s, 2, Len(s)))
         ELSE SubSeq(s, 1, 1) \o RemoveAll(cls, SubSeq(s, 2, Len(s)))

\* s with every maximal run of white space replaced by one space:
\* replace(/\s+/g, ' ')
RECURSIVE CollapseSpaces(_)
CollapseSpaces(s) ==
    IF Len(s) = 0 THEN ""
    ELSE IF SubSeq(s, 1, 1) \in WhiteSpaceChar
         THEN " " \o CollapseSpaces(TrimLeft(s))
         ELSE SubSeq(s, 1, 1) \o CollapseSpaces(SubSeq(s, 2, Len(s)))

\* s without the colons it ends with: replace(/:+$/, '')
RECURSIVE StripTrailingColons(_)
StripTrailingColons(s) ==
    IF Len(s) > 0 /\ SubSeq(s, Len(s), Len(s)) = ":"
    THEN StripTrailingColons(SubSeq(s, 1, Len(s) - 1))
    ELSE s

cleanUsername(name) ==
    StripTrailingColons(Trim(CollapseSpaces(RemoveAll("quote", name))))

\* toUpperCase of one character of a meridiem marker
UpperChar(c) ==
    CASE c = "a" -> "A"
      [] c = "p" -> "P"
      [] c = "m" -> "M"
      [] OTHER   -> c

\* The leftmost position of (am|pm), any case, at or after pos; 0 if none.
RECURSIVE MeridiemFrom(_, _)
MeridiemFrom(cs, pos) ==
    IF pos + 1 > Len(cs) THEN 0
    ELSE IF MeridiemAt(cs, pos) THEN pos
    ELSE MeridiemFrom(cs, pos + 1)

\* The leftmost position of a digit directly followed by (AM|PM), any case,
\* at or after pos; 0 if none.
RECURSIVE DigitMeridiemFrom(_, _)
DigitMeridiemFrom(cs, pos) ==
    IF pos + 2 > Len(cs) THEN 0
    ELSE IF cs[pos] \in Digit /\ MeridiemAt(cs, pos + 1) THEN pos
    ELSE DigitMeridiemFrom(cs, pos + 1)

\* replace(/(\d)(AM|PM)/i, '$1 $2'): a space after the first such digit
AddMeridiemSpace(time) ==
    LET d == DigitMeridiemFrom(Chars(time), 1)
    IN IF d = 0 THEN time
       ELSE SubSeq(time, 1, d) \o " " \o SubSeq(time, d + 1, Len(time))

\* replace(/(am|pm)/i, m => m.toUpperCase()): the first marker in upper case
UpperMeridiem(time) ==
    LET m == MeridiemFrom(Chars(time), 1)
    IN IF m = 0 THEN time
       ELSE SubSeq(time, 1, m - 1) \o UpperChar(SubSeq(time, m, m))
                \o UpperChar(SubSeq(time, m + 1, m + 1))
                \o SubSeq(time, m + 2, Len(time))

normalizeTime(time) == UpperMeridiem(AddMeridiemSpace(time))

(***************************************************************************)
(* parseLine                                                               *)
(***************************************************************************)

\* parseLine's null
Null == [time |-> "", user |-> "", content |-> "", format |-> "null"]

\* Last match wins: the position of the last format whose pattern matches cs.
RECURSIVE LastMatchFrom(_, _, _)
LastMatchFrom(order, cs, n) ==
    IF n > Len(order) THEN 0
    ELSE LET later == LastMatchFrom(order, cs, n + 1)
         IN IF later # 0 THEN later
            ELSE IF ExecFrom(patterns(order[n]), cs, 1).ok THEN n ELSE 0

\* The position in the order of the first format, from n on, whose pattern
\* matches somewhere in the characters cs (line.match(pattern) is not null,
\* pattern.test(sample) is true); 0 if none does.
RECURSIVE FirstMatchFrom(_, _, _)
FirstMatchFrom(order, cs, n) ==
    IF n > Len(order) THEN 0
    ELSE IF ExecFrom(patterns(order[n]), cs, 1).ok THEN n
    ELSE FirstMatchFrom(order, cs, n + 1)

\* parseLine without the branch for generic1.
fieldOrderNoGeneric(format) ==
    CASE format \in {"imessage", "slack", "telegram", "sms"} -> <<2, 1, 3>>
      [] format = "whatsapp1"                -> <<1, 2, 3>>
      [] format = "whatsapp2"                -> <<2, 1, 3>>
      [] format \in {"discord", "standard"}  -> <<1, 2, 3>>
      [] OTHER                               -> <<0, 0, 0>>

\* The capture groups holding <<time, user, content>> for a format, by the
\* branches of parseLine; <<0, 0, 0>> when no branch assigns them.
fieldOrder(format) ==
    CASE format \in {"imessage", "slack", "telegram", "sms"} -> <<2, 1, 3>>
      [] format = "whatsapp1"                -> <<1, 2, 3>>
      [] format = "whatsapp2"                -> <<2, 1, 3>>
      [] format \in {"discord", "standard"}  -> <<1, 2, 3>>
      [] format = "generic1"                 -> <<2, 1, 3>>
      [] OTHER                               -> <<0, 0, 0>>

\* The message parseLine builds from the match of the format's pattern.
BuildMessage(format, line) ==
    LET r == ExecFrom(patterns(format), Chars(line), 1)
        o == fieldOrder(format)
    IN [time    |-> normalizeTime(Trim(Group(line, r, o[1]))),
        user    |-> cleanUsername(Trim(Group(line, r, o[2]))),
        content |-> Trim(Group(line, r, o[3])),
        format  |-> format]

\* The format parseLine settles on for the line, "null" if none.
matchedFormat(line) ==
    LET n == FirstMatchFrom(FormatOrder, Chars(line), 1)
    IN IF n = 0 THEN "null" ELSE FormatOrder[n]

\* parseLine throws a TypeError when a pattern matches and no branch assigns
\* user: cleanUsername(undefined).
parseLineThrows(line) ==
    LET f == matchedFormat(line)
    IN f # "null" /\ fieldOrder(f) = <<0, 0, 0>>

parseLine(line) ==
    LET f == matchedFormat(line)
    IN IF f = "null" THEN Null ELSE BuildMessage(f, line)

(***************************************************************************)
(* toStandardFormat, detectFormat, getFormatExample                        *)
(***************************************************************************)

RECURSIVE MapStandard(_)
MapStandard(msgs) ==
    IF Len(msgs) = 0 THEN <<>>
    ELSE <<"[" \o msgs[1].time \o "] " \o msgs[1].user \o ": " \o msgs[1].content>>
             \o MapStandard(Tail(msgs))

toStandardFormat(msgs) == Join(MapStandard(msgs))

\* slice(0, 5)
SampleLines == 5

Slice(ls, n) == SubSeq(ls, 1, IF Len(ls) < n THEN Len(ls) ELSE n)

\* The sample taken from the first five non-empty lines.
detectFormatNonEmpty(t) ==
    LET sample == Join(Slice(FilterNonEmpty(Split(t)), SampleLines))
        n == FirstMatchFrom(FormatOrder, Chars(sample), 1)
    IN IF n = 0 THEN "unknown" ELSE FormatOrder[n]

detectFormat(t) ==
    LET sample == Join(Slice(Split(t), SampleLines))
        n == FirstMatchFrom(FormatOrder, Chars(sample), 1)
    IN IF n = 0 THEN "unknown" ELSE FormatOrder[n]

examples(format) ==
    CASE format = "imessage"  -> "John Doe\n10:30 AM\nHey what's up"
      [] format = "discord"   -> "[10:30 AM] John: Hey what's up"
      [] format = "whatsapp1" -> "10:30 AM - John: Hey what's up"
      [] format = "whatsapp2" -> "John, 10:30 AM: Hey what's up"
      [] format = "slack"     -> "John 10:30 AM\nHey what's up"
      [] format = "telegram"  -> "John [10:30]\nHey what's up"
      [] format = "sms"       -> "John 10:30\nHey what's up"
      [] format = "generic1"  -> "John (10:30): Hey what's up"
      [] format = "standard"  -> "[10:30 AM] John: Hey what's up"
      [] OTHER                -> ""

\* examples[format] || examples.standard
getFormatExample(format) ==
    IF examples(format) # "" THEN examples(format) ELSE examples("standard")

(***************************************************************************)
(* parse                                                                   *)
(***************************************************************************)

\* The text taken whole, as one line, instead of split at its line feeds.
splitLinesUnsplit(t) == FilterNonEmpty(<<Trim(t)>>)

\* text.split('\n').map(l => l.trim()).filter(l => l)
splitLines(t) == FilterNonEmpty(MapTrim(Split(t)))

\* !text || !text.trim()
isBlank(t) == t = "" \/ Trim(t) = ""

\* The open message put in front of the output list instead of at its end.
pushedInFront(msgs, cur, res) ==
    IF res # Null /\ cur # Null THEN <<cur>> \o msgs ELSE msgs

\* A message pushed as soon as it is opened, while it is still open.
pushedWhenOpened(msgs, cur, res) ==
    IF res # Null THEN Append(msgs, res) ELSE msgs

\* The output list after one line: the open message is pushed when the line
\* starts a new one.
pushed(msgs, cur, res) ==
    IF res # Null /\ cur # Null THEN Append(msgs, cur) ELSE msgs

\* A continuation line appended without the separating space.
accumulateNoSpace(cur, res, line) ==
    IF res # Null THEN res
    ELSE IF cur # Null THEN [cur EXCEPT !.content = @ \o line]
    ELSE cur

\* A line no rule matches, met while no message is open, kept as the start
\* of a message instead of discarded.
accumulateOrphan(cur, res, line) ==
    IF res # Null THEN res
    ELSE IF cur # Null THEN [cur EXCEPT !.content = @ \o " " \o line]
    ELSE [time |-> "", user |-> "", content |-> line, format |-> "unknown"]

\* currentMessage after one line: the new message, the open one with the
\* line folded into its content, or still null.
accumulate(cur, res, line) ==
    IF res # Null THEN res
    ELSE IF cur # Null THEN [cur EXCEPT !.content = @ \o " " \o line]
    ELSE cur

\* "Don't forget the last message"
flushed(msgs, cur) == IF cur # Null THEN Append(msgs, cur) ELSE msgs

\* The loop of parse from line n on, as a function of the lines.
RECURSIVE parseFrom(_, _, _, _)
parseFrom(ls, n, msgs, cur) ==
    IF n > Len(ls) THEN flushed(msgs, cur)
    ELSE LET res == parseLine(ls[n])
         IN parseFrom(ls, n + 1, pushed(msgs, cur, res),
                      accumulate(cur, res, ls[n]))

\* parse as a function of its argument
parse(t) == IF isBlank(t) THEN <<>> ELSE parseFrom(splitLines(t), 1, <<>>, Null)

(***************************************************************************)
(* Inputs                                                                  *)
(***************************************************************************)

\* Lines a transcript is made of: a bracketed line, a line two rules match
\* (whatsapp1 before whatsapp2), a whatsapp2 line whose user holds a colon,
\* and a line no rule matches, to be trimmed.
LineChoices == {"[1]a:b", "1-a,2:b", "a:b,1:c", " x"}

MaxLines == 3

Bodies == UNION {[1..n -> LineChoices] : n \in 0..MaxLines}

\* What precedes the body: nothing, or blank lines, one fewer than
\* detectFormat samples, so that the sample ends with the body's first line.
Pads == {<<>>, [n \in 1..(SampleLines - 1) |-> ""]}

FoldingExample == "[10:30 AM] John: Hello\nstill talking"

Inputs == {Join(p \o b) : p \in Pads, b \in Bodies} \cup {"   ", FoldingExample}

FormatSet == {FormatOrder[n] : n \in 1..Len(FormatOrder)}

(***************************************************************************)
(* The state machine: one caller, which takes a transcript (its own or an  *)
(* example), then either asks for its format or parses it, serializes the  *)
(* result with toStandardFormat and parses that again.                     *)
(***************************************************************************)

Init ==
    /\ text = ""
    /\ tag = "none"
    /\ pc = "idle"
    /\ lines = <<>>
    /\ i = 0
    /\ messages = <<>>
    /\ currentMessage = Null
    /\ pass = 1
    /\ first = <<>>
    /\ parsed = Null
    /\ detected = "none"
    /\ raised = FALSE
    /\ opened = <<>>

\* The caller supplies a transcript.
Input ==
    /\ pc = "idle"
    /\ \E t \in Inputs : text' = t
    /\ pc' = "ready"
    /\ UNCHANGED <<tag, lines, i, parsed, messages, currentMessage, pass,
                   first, detected, raised, opened>>

\* The caller takes getFormatExample(format) as its transcript.
GetFormatExample ==
    /\ pc = "idle"
    /\ \E f \in FormatSet \cup {"other"} :
          /\ text' = getFormatExample(f)
          /\ tag' = f
    /\ pc' = "ready"
    /\ UNCHANGED <<lines, i, parsed, messages, currentMessage, pass, first,
                   detected, raised, opened>>

\* detectFormat(text)
DetectFormat ==
    /\ pc = "ready"
    /\ pass = 1
    /\ detected' = detectFormat(text)
    /\ pc' = "detected"
    /\ UNCHANGED <<text, tag, lines, i, parsed, messages, currentMessage, pass,
                   first, raised, opened>>

\* parse: the early return for an empty or blank text
ParseBlank ==
    /\ pc = "ready"
    /\ isBlank(text)
    /\ messages' = <<>>
    /\ pc' = "done"
    /\ UNCHANGED <<text, tag, lines, i, parsed, currentMessage, pass, first,
                   detected, raised, opened>>

\* parse: the lines, and the accumulator's initial state
ParseSplit ==
    /\ pc = "ready"
    /\ ~isBlank(text)
    /\ lines' = splitLines(text)
    /\ messages' = <<>>
    /\ currentMessage' = Null
    /\ i' = 1
    /\ pc' = "loop"
    /\ opened' = <<>>
    /\ UNCHANGED <<text, tag, parsed, pass, first, detected, raised>>

\* parse: const parsed = this.parseLine(line)
ParseLine ==
    /\ pc = "loop"
    /\ i <= Len(lines)
    /\ IF parseLineThrows(lines[i])
       THEN /\ raised' = TRUE
            /\ pc' = "threw"
            /\ UNCHANGED parsed
       ELSE /\ parsed' = parseLine(lines[i])
            /\ pc' = "parsed"
            /\ UNCHANGED raised
    /\ UNCHANGED <<text, tag, lines, i, messages, currentMessage, pass, first,
                   detected, opened>>

\* The rest of the loop's body, once the line is classified. opened is the
\* history of the messages as parseLine returned them, each with the index
\* of its line.
LoopBody ==
    /\ messages' = pushed(messages, currentMessage, parsed)
    /\ currentMessage' = accumulate(currentMessage, parsed, lines[i])
    /\ opened' = IF parsed # Null
                 THEN Append(opened, [line |-> i, msg |-> parsed])
                 ELSE opened
    /\ i' = i + 1
    /\ pc' = "loop"
    /\ UNCHANGED <<text, tag, lines, parsed, pass, first, detected, raised>>

\* parse: the line starts a new message
NewMessage ==
    /\ pc = "parsed"
    /\ parsed # Null
    /\ LoopBody

\* parse: the line matches no rule and a message is open
Continuation ==
    /\ pc = "parsed"
    /\ parsed = Null
    /\ currentMessage # Null
    /\ LoopBody

\* parse: the line matches no rule and no message is open
Discard ==
    /\ pc = "parsed"
    /\ parsed = Null
    /\ currentMessage = Null
    /\ LoopBody

\* parse: after the loop, the last message and the return
ParseReturn ==
    /\ pc = "loop"
    /\ i > Len(lines)
    /\ messages' = flushed(messages, currentMessage)
    /\ pc' = "done"
    /\ UNCHANGED <<text, tag, lines, i, parsed, currentMessage, pass, first,
                   detected, raised, opened>>

\* The caller serializes the first parse's result and parses it again.
ToStandardFormat ==
    /\ pc = "done"
    /\ pass = 1
    /\ first' = messages
    /\ text' = toStandardFormat(messages)
    /\ pass' = 2
    /\ pc' = "ready"
    /\ lines' = <<>>
    /\ i' = 0
    /\ messages' = <<>>
    /\ currentMessage' = Null
    /\ parsed' = Null
    /\ opened' = <<>>
    /\ UNCHANGED <<tag, detected, raised>>

Next ==
    \/ Input
    \/ GetFormatExample
    \/ DetectFormat
    \/ ParseBlank
    \/ ParseSplit
    \/ ParseLine
    \/ NewMessage
    \/ Continuation
    \/ Discard
    \/ ParseReturn
    \/ ToStandardFormat

Spec == Init /\ [][Next]_vars

(***************************************************************************)
(* Properties                                                              *)
(***************************************************************************)

MultiLineFormats == {"imessage", "slack", "telegram", "sms"}

\* The lines parse has run its loop body on.
Processed ==
    CASE pc \in {"loop", "parsed"} -> i - 1
      [] pc = "done"               -> Len(lines)
      [] OTHER                     -> 0

InParse == pc \in {"loop", "parsed", "done"}

\* The messages created so far, in the order of their creation: the closed
\* ones, then the open one while parse is still accumulating.
Created ==
    IF pc \in {"loop", "parsed"} /\ currentMessage # Null
    THEN Append(messages, currentMessage)
    ELSE messages

\* The content a message opened with content c has after the lines a+1..b
\* are folded in, in order.
RECURSIVE Folded(_, _, _, _)
Folded(c, ls, a, b) ==
    IF b <= a THEN c
    ELSE Folded(c, ls, a, b - 1) \o " " \o ls[b]

\* Whether some rule's pattern matches the line.
Classifies(line) ==
    LET cs == Chars(line)
    IN \E f \in FormatSet : ExecFrom(patterns(f), cs, 1).ok

\* Whether the format's pattern matches somewhere in s.
Matches(format, s) == ExecFrom(patterns(format), Chars(s), 1).ok

\* The position of a format in the declaration order; 0 for a name that is
\* not a format's.
PositionOf(f) ==
    IF f \in FormatSet
    THEN CHOOSE n \in 1..Len(FormatOrder) : FormatOrder[n] = f
    ELSE 0

\* Whether f names the first format in declaration order whose pattern
\* matches somewhere in s, or, for a name that is not a format's, whether no
\* format's pattern matches s.
IsFirstMatch(f, s) ==
    LET cs == Chars(s)
        n == PositionOf(f)
    IN /\ n # 0 => ExecFrom(patterns(f), cs, 1).ok
       /\ \A m \in 1..(IF n = 0 THEN Len(FormatOrder) ELSE n - 1) :
            ~ExecFrom(patterns(FormatOrder[m]), cs, 1).ok

Triple(m) == <<m.time, m.user, m.content>>

AllWhiteSpace(t) == \A n \in 1..Len(t) : SubSeq(t, n, n) \in WhiteSpaceChar

\* C1: for every registered tag, parse(getFormatExample(tag)) holds at least
\* one message whose format is that tag.
C1_ExampleParsesToItsTag ==
    (pc = "done" /\ pass = 1 /\ tag \in FormatSet)
        => \E n \in 1..Len(messages) : messages[n].format = tag

\* C2: parsing toStandardFormat(m), for m the result of a parse, gives as many
\* messages as m, with the same time, user and content at every position.
C2_RoundTrip ==
    (pc = "done" /\ pass = 2)
        => /\ Len(messages) = Len(first)
           /\ \A n \in 1..Len(first) : Triple(messages[n]) = Triple(first[n])

\* C3: at every point of parse, each message created so far holds the content
\* of its opening line followed by " " + line for every later line up to the
\* next classifying line (or up to the line reached, for the open message),
\* so a line that matches no rule goes to the most recently opened message
\* and to no other, and a pushed message never changes; the folding example
\* of the specification parses to the one message "Hello still talking".
C3_ContinuationFolding ==
    /\ InParse =>
         /\ Len(Created) = Len(opened)
         /\ \A n \in 1..Len(opened) :
              Created[n].content
                = Folded(opened[n].msg.content, lines, opened[n].line,
                         IF n < Len(opened) THEN opened[n + 1].line - 1
                         ELSE Processed)
    /\ (pc = "done" /\ pass = 1 /\ text = FoldingExample)
         => messages = <<[time |-> "10:30 AM", user |-> "John",
                          content |-> "Hello still talking",
                          format |-> "discord"]>>

\* C3 witness: a parse has returned two messages, the first with a line
\* folded into it before the second one's opening line.
C3_Witness ==
    /\ pc = "done"
    /\ pass = 1
    /\ Len(lines) = 3
    /\ Len(messages) = 2
    /\ ~Classifies(lines[2])
    /\ messages[1].content = opened[1].msg.content \o " " \o lines[2]

\* C4: parse returns one message per classifying line, the n-th message being
\* the one the n-th classifying line opened.
C4_OneMessagePerOpenerInOrder ==
    pc = "done" =>
        /\ Len(messages) = Len(opened)
        /\ \A n \in 1..Len(opened) :
             /\ messages[n].time = opened[n].msg.time
             /\ messages[n].user = opened[n].msg.user
             /\ messages[n].format = opened[n].msg.format
        /\ \A n \in 1..Len(lines) :
             Classifies(lines[n]) <=> \E m \in 1..Len(opened) : opened[m].line = n

\* C4 witness: a returned list of three messages opened by lines of three
\* different rules.
C4_Witness ==
    /\ pc = "done"
    /\ pass = 1
    /\ Len(messages) = 3
    /\ messages[1].format = "whatsapp2"
    /\ messages[2].format = "discord"
    /\ messages[3].format = "whatsapp1"

\* C5: parse never raises, and returns the empty list for an empty or
\* whitespace-only text and for a text none of whose lines matches a rule
\* (stated as: if it returns a message, some line matches a rule).
C5_TotalAndEmpty ==
    /\ ~raised
    /\ pc # "threw"
    /\ (pc = "done" /\ AllWhiteSpace(text)) => messages = <<>>
    /\ (pc = "done" /\ messages # <<>>)
         => \E n \in 1..Len(lines) : Classifies(lines[n])

\* C5 witness: parse has returned the empty list for a text of three
\* non-empty lines, none of which matches a rule.
C5_Witness ==
    /\ pc = "done"
    /\ ~AllWhiteSpace(text)
    /\ Len(lines) = 3
    /\ \A n \in 1..Len(lines) : ~Classifies(lines[n])
    /\ messages = <<>>

\* The first five elements of ls, or all of them if there are fewer.
Head5(ls) == SubSeq(ls, 1, IF Len(ls) < 5 THEN Len(ls) ELSE 5)

\* The lines that are not blank, in order.
RECURSIVE NonBlank(_)
NonBlank(ls) ==
    IF Len(ls) = 0 THEN <<>>
    ELSE IF Trim(ls[1]) = "" THEN NonBlank(Tail(ls))
    ELSE <<ls[1]>> \o NonBlank(Tail(ls))

\* C6, as amended: detectFormat's sample is the first five lines of the text
\* as split at its line feeds, blank lines among them counted and kept; it
\* returns the first format in table order whose pattern matches somewhere in
\* the sample, or "unknown".
C6_DetectFirstFiveLines ==
    pc = "detected" =>
        /\ detected \in FormatSet \cup {"unknown"}
        /\ IsFirstMatch(detected, Join(Head5(Split(text))))

\* C6, as claimed: the sample is the first five non-empty lines, blank lines
\* skipped and not counted.
C6_DetectFirstFiveNonEmpty ==
    pc = "detected" =>
        /\ detected \in FormatSet \cup {"unknown"}
        /\ IsFirstMatch(detected, Join(Head5(NonBlank(Split(text)))))

\* C6 witness: detectFormat has answered "unknown" for a text whose first
\* four lines are blank, whose fifth line matches no rule and whose sixth
\* line matches one.
C6_Witness ==
    /\ pc = "detected"
    /\ Len(Split(text)) > 5
    /\ \A n \in 1..4 : Split(text)[n] = ""
    /\ ~Classifies(Split(text)[5])
    /\ Classifies(Split(text)[6])
    /\ detected = "unknown"

\* C7, as amended: at every point of the accumulation at most one message is
\* open: none until a classifying line has been processed, exactly one from
\* then on; every other message created so far is in the output list.
C7_AtMostOneOpen ==
    pc \in {"loop", "parsed"} =>
        LET created == Len(opened)
        IN IF created = 0
           THEN currentMessage = Null /\ messages = <<>>
           ELSE /\ currentMessage # Null
                /\ Len(messages) = created - 1
                /\ \A n \in 1..Len(messages) : messages[n] # Null

\* C7, as claimed: at every point of the accumulation exactly one message is
\* open, and every other message created so far is in the output list.
C7_ExactlyOneOpen ==
    pc \in {"loop", "parsed"} =>
        /\ currentMessage # Null
        /\ Len(messages) = Len(opened) - 1

\* C7 witness: in the loop, a third message is open and the two created
\* before it are in the output list.
C7_Witness ==
    /\ pc = "loop"
    /\ Len(opened) = 3
    /\ currentMessage # Null
    /\ Len(messages) = 2

RECURSIVE FromFirstOpener(_)
FromFirstOpener(ls) ==
    IF Len(ls) = 0 THEN <<>>
    ELSE IF Classifies(Trim(ls[1])) THEN ls
    ELSE FromFirstOpener(Tail(ls))

RemoveLeading(t) == Join(FromFirstOpener(Split(t)))

\* C9: removing the lines before the first classifying line of a text leaves
\* the result of parse unchanged.
C9_LeadingLinesDiscarded ==
    pc = "done" => messages = parse(RemoveLeading(text))

\* C9 witness: parse has returned messages for a text that starts with a
\* non-empty line no rule matches.
C9_Witness ==
    /\ pc = "done"
    /\ pass = 1
    /\ Len(lines) > 1
    /\ ~Classifies(Trim(Split(text)[1]))
    /\ Trim(Split(text)[1]) # ""
    /\ RemoveLeading(text) # text
    /\ messages # <<>>

\* C10: parseLine returns the message of the first format in declaration
\* order whose pattern matches the line, or null if none matches; no message
\* has the format standard.
C10_FirstMatchWins ==
    /\ pc = "parsed" =>
         /\ parsed.format \in FormatSet \cup {"null"}
         /\ IsFirstMatch(parsed.format, lines[i])
         /\ IF parsed.format = "null" THEN parsed = Null
            ELSE parsed = BuildMessage(parsed.format, lines[i])
    /\ parsed.format # "standard"
    /\ currentMessage.format # "standard"
    /\ \A n \in 1..Len(messages) : messages[n].format # "standard"

\* C10 witness: a line that the patterns of whatsapp1 and whatsapp2 both match
\* has been classified as whatsapp1, and a line that discord and standard
\* both match opened the message before it.
C10_Witness ==
    /\ pc = "parsed"
    /\ Matches("whatsapp1", lines[i])
    /\ Matches("whatsapp2", lines[i])
    /\ parsed.format = "whatsapp1"
    /\ i > 1
    /\ Matches("standard", lines[i - 1])
    /\ currentMessage.format = "discord"

====
